---- MODULE Spec2Model ----
(***************************************************************************)
(* Model of the resume analyser: the /process_resumes handler of main.py   *)
(* together with the OCR, LLM and usage-log services it calls.             *)
(*                                                                         *)
(* Text that the code inspects character by character (file names, OCR     *)
(* text) is a sequence of one-character strings; messages that are only    *)
(* stored and returned are TLA+ strings.                                   *)
(***************************************************************************)
EXTENDS Integers, Sequences, FiniteSets, TLC

(* ------------------------------ bounds -------------------------------- *)
\* most files in one request
MaxFiles == 2
\* most pages pdf2image yields for one PDF
MaxPages == 1

(* --------------------------- Python values ---------------------------- *)
None == "None"

\* an Optional[str] holding a character sequence
NoneStr == [is_none |-> TRUE, val |-> <<>>]
SomeStr(s) == [is_none |-> FALSE, val |-> s]

Whitespace == {" ", "\n", "\t"}

UpperChars == <<"A", "B", "C", "D", "E", "F", "G", "H", "I", "J", "K", "L", "M",
                "N", "O", "P", "Q", "R", "S", "T", "U", "V", "W", "X", "Y", "Z">>
LowerChars == <<"a", "b", "c", "d", "e", "f", "g", "h", "i", "j", "k", "l", "m",
                "n", "o", "p", "q", "r", "s", "t", "u", "v", "w", "x", "y", "z">>
DigitChars == <<"1", "2", "3", "4", "5", "6", "7", "8", "9">>

\* str.lower() of one character
LowerChar(c) ==
    IF \E k \in 1..Len(UpperChars) : UpperChars[k] = c
    THEN LowerChars[CHOOSE k \in 1..Len(UpperChars) : UpperChars[k] = c]
    ELSE c

\* str.lower()
lower(s) == [k \in 1..Len(s) |-> LowerChar(s[k])]

\* c in s
Contains(s, c) == \E k \in 1..Len(s) : s[k] = c

\* s.split(c)[-1]: what follows the last c (all of s when c is absent)
LastPart(s, c) ==
    IF Contains(s, c)
    THEN LET last == CHOOSE k \in 1..Len(s) :
                        s[k] = c /\ \A j \in (k + 1)..Len(s) : s[j] # c
         IN  SubSeq(s, last + 1, Len(s))
    ELSE s

\* str.strip()
RECURSIVE lstrip(_)
lstrip(s) == IF s # <<>> /\ Head(s) \in Whitespace THEN lstrip(Tail(s)) ELSE s
RECURSIVE rstrip(_)
rstrip(s) ==
    IF s # <<>> /\ s[Len(s)] \in Whitespace
    THEN rstrip(SubSeq(s, 1, Len(s) - 1))
    ELSE s
strip(s) == rstrip(lstrip(s))

(* ------------------------------ main.py ------------------------------- *)
ALLOWED_EXTENSIONS ==
    { <<"p", "d", "f">>, <<"p", "n", "g">>, <<"j", "p", "g">>, <<"j", "p", "e", "g">> }
ALLOWED_MIME_TYPES == {"application/pdf", "image/png", "image/jpeg"}

get_file_extension(filename) ==
    IF Contains(filename, ".") THEN SomeStr(lower(LastPart(filename, "."))) ELSE NoneStr

(* --------------------------- ocr_service.py --------------------------- *)
\* what Tesseract does on one image: it raises, or it returns raw text
RawTexts == { <<>>, <<" ", "\n">>, <<" ", "c", "v", "\n">> }
OcrOutcomes ==
    { [raised |-> TRUE, text |-> <<>>] } \cup { [raised |-> FALSE, text |-> t] : t \in RawTexts }

extract_text_from_image_bytes(o) == IF o.raised THEN <<>> ELSE strip(o.text)

\* f"\n--- Página {i+1} ---\n"
PageHeader(n) ==
    <<"\n", "-", "-", "-", " ", "P", "á", "g", "i", "n", "a", " ", DigitChars[n],
      " ", "-", "-", "-", "\n">>
\* f"\n--- Página {i+1} (Erro na extração) ---\n"
PageErrorHeader(n) ==
    <<"\n", "-", "-", "-", " ", "P", "á", "g", "i", "n", "a", " ", DigitChars[n], " ",
      "(", "E", "r", "r", "o", " ", "n", "a", " ", "e", "x", "t", "r", "a", "ç", "ã", "o", ")",
      " ", "-", "-", "-", "\n">>

\* one page of a PDF: saving the page image raises, or the page goes through OCR
PageOutcomes ==
    { [save_raises |-> TRUE, ocr |-> [raised |-> TRUE, text |-> <<>>]] }
    \cup { [save_raises |-> FALSE, ocr |-> o] : o \in OcrOutcomes }

RECURSIVE SeqsUpTo(_, _)
SeqsUpTo(S, n) ==
    IF n = 0 THEN { <<>> }
    ELSE LET shorter == SeqsUpTo(S, n - 1)
         IN  shorter \cup { Append(q, x) : q \in { r \in shorter : Len(r) = n - 1 }, x \in S }

PdfOutcomes ==
    { [convert_raises |-> TRUE, pages |-> <<>>] }
    \cup { [convert_raises |-> FALSE, pages |-> ps] : ps \in SeqsUpTo(PageOutcomes, MaxPages) }

\* the loop over enumerate(images): full_text after pages 1..n
RECURSIVE PagesText(_, _)
PagesText(pages, n) ==
    IF n = 0 THEN <<>>
    ELSE PagesText(pages, n - 1) \o
         (IF pages[n].save_raises
          THEN PageErrorHeader(n)
          ELSE PageHeader(n) \o extract_text_from_image_bytes(pages[n].ocr))

extract_text_from_pdf_bytes(o) ==
    IF o.convert_raises THEN <<>> ELSE strip(PagesText(o.pages, Len(o.pages)))

(* --------------------------- llm_service.py --------------------------- *)
NoHandle == [is_none |-> TRUE, id |-> 0]
Handle(k) == [is_none |-> FALSE, id |-> k]

\* what the tokenizer and the model do on one call
ModelOutputs == { "Engenheiro com Python e AWS." }
Exceptions == { "boom" }
LlmOutcomes ==
    [tokenizer_raises : BOOLEAN, generate_raises : BOOLEAN, decoded : ModelOutputs,
     exc : Exceptions]

Returned(v) == [raised |-> FALSE, value |-> v]
Raised(e) == [raised |-> TRUE, value |-> e]

generate_summary(generator, text, o) ==
    IF generator.is_none THEN Returned("Erro: LLM não disponível para sumarização.")
    ELSE IF o.tokenizer_raises THEN Raised(o.exc)
    ELSE IF o.generate_raises THEN Returned("Erro ao gerar sumário.")
    ELSE Returned(o.decoded)

analyze_resume_with_query(generator, resume_text, query, o) ==
    IF generator.is_none THEN Returned("Erro: LLM não disponível para análise.")
    ELSE IF o.tokenizer_raises THEN Raised(o.exc)
    ELSE IF o.generate_raises THEN Returned("Erro ao analisar currículo.")
    ELSE Returned(o.decoded)

(* ---------------------------- db_service.py --------------------------- *)
\* log_usage without the try/except around insert_one
log_usage_raising(collection, request_id, user_id, query_text, result_summary, insert_raises) ==
    IF collection = None THEN [raised |-> FALSE, inserted |-> <<>>]
    ELSE IF insert_raises THEN [raised |-> TRUE, inserted |-> <<>>]
    ELSE [raised |-> FALSE,
          inserted |-> << [request_id |-> request_id, user_id |-> user_id,
                           query_text |-> query_text, result_summary |-> result_summary] >>]

\* log_usage: whether it raises, and the documents it inserts (the timestamp is not kept)
log_usage(collection, request_id, user_id, query_text, result_summary, insert_raises) ==
    IF collection = None THEN [raised |-> FALSE, inserted |-> <<>>]
    ELSE IF insert_raises THEN [raised |-> FALSE, inserted |-> <<>>]
    ELSE [raised |-> FALSE,
          inserted |-> << [request_id |-> request_id, user_id |-> user_id,
                           query_text |-> query_text, result_summary |-> result_summary] >>]

(* ------------------------- models/schemas.py -------------------------- *)
ResumeSummary(file_name, summary) ==
    [kind |-> "ResumeSummary", file_name |-> file_name, summary |-> summary]
ResumeAnalysis(file_name, analysis) ==
    [kind |-> "ResumeAnalysis", file_name |-> file_name, analysis |-> analysis]
SummaryResponse(request_id, results) ==
    [type |-> "SummaryResponse", request_id |-> request_id, results |-> results]
AnalysisResponse(request_id, query_used, results) ==
    [type |-> "AnalysisResponse", request_id |-> request_id, query_used |-> query_used,
     results |-> results]
\* pydantic accepts a results list only when every entry is of the declared model
ValidResults(results, kind) == \A k \in 1..Len(results) : results[k].kind = kind

(* ------------------------------ requests ------------------------------ *)
FileName_PDF == <<"a", ".", "P", "D", "F">>
FileName_png == <<"b", ".", "p", "n", "g">>
FileName_jpeg == <<"c", ".", "d", ".", "j", "p", "e", "g">>
FileName_txt == <<"e", ".", "t", "x", "t">>
FileName_noext == <<"c", "v">>
FileName_dot == <<"g", ".">>

UploadFile(filename, content_type) == [filename |-> filename, content_type |-> content_type]

InputFiles ==
    { UploadFile(FileName_PDF, "application/pdf"),
      UploadFile(FileName_png, "image/png"),
      UploadFile(FileName_jpeg, "image/jpeg"),
      UploadFile(FileName_PDF, "text/plain"),
      UploadFile(FileName_txt, "application/pdf"),
      UploadFile(FileName_noext, "image/png"),
      UploadFile(FileName_dot, "image/jpeg") }
InputQueries == { None, "", "Python e AWS" }
InputUserIds == { "fabio_techmatch" }
InputRequestIds == { "a1b2c3d4" }

\* "is not None" in place of truthiness
Truthy_not_none(q) == q # None

\* Python truthiness of an Optional[str]
Truthy(q) == q # None /\ q # ""

NoResponse == [type |-> "none"]
HTTPException(status_code, detail, filename) ==
    [type |-> "HTTPException", status_code |-> status_code, detail |-> detail,
     file_name |-> filename]
NoRequest == [files |-> <<>>, user_id |-> "", request_id |-> "", query |-> None]

(* ------------------------------- state -------------------------------- *)
VARIABLES
    pc,                   \* where the process is: importing, idle, or inside the handler
    text2text_generator,  \* llm_service: the module-level pipeline handle
    load_count,           \* llm_service: times the model was loaded
    logs_collection,      \* db_service: the module-level collection handle
    inference_called,     \* some request has called the inference adapter
    request,              \* the handler's arguments
    vi,                   \* index of the validation loop
    fi,                   \* index of the processing loop
    text_content,         \* the handler's text_content
    processed_results,    \* the handler's processed_results
    log_result_summary,   \* the handler's log_result_summary
    log_calls,            \* calls of log_usage by this request
    log_inserted,         \* documents this request inserted into usage_logs
    response,             \* what the handler returned or raised
    read_files,           \* indices of the files read by this request
    extracted,            \* indices of the files handed to OCR
    inferred,             \* indices of the files handed to the inference adapter
    no_text,              \* indices of the files from which OCR extracted no text
    caught                \* indices of the files whose processing raised

moduleVars == <<text2text_generator, load_count, logs_collection>>
loopVars == <<text_content, processed_results, log_result_summary>>
traceVars == <<read_files, extracted, inferred, no_text, caught>>
vars == <<pc, text2text_generator, load_count, logs_collection,
          inference_called, request, vi, fi, text_content, processed_results,
          log_result_summary, log_calls, log_inserted, response, read_files,
          extracted, inferred, no_text, caught>>

files == request.files
query == request.query

Init ==
    /\ pc = "import"
    /\ text2text_generator = NoHandle
    /\ load_count = 0
    /\ logs_collection = None
    /\ inference_called = FALSE
    /\ request = NoRequest
    /\ vi = 0
    /\ fi = 0
    /\ text_content = <<>>
    /\ processed_results = <<>>
    /\ log_result_summary = [files_processed |-> 0, files_failed |-> 0, operation_type |-> "summary"]
    /\ log_calls = 0
    /\ log_inserted = <<>>
    /\ response = NoResponse
    /\ read_files = {}
    /\ extracted = {}
    /\ inferred = {}
    /\ no_text = {}
    /\ caught = {}

(* --------------------------- module import --------------------------- *)
\* an import that leaves the model for later
ImportModules_noload ==
    /\ pc = "import"
    /\ \E mongo_up \in BOOLEAN : logs_collection' = IF mongo_up THEN "usage_logs" ELSE None
    /\ pc' = "idle"
    /\ UNCHANGED <<text2text_generator, load_count, inference_called, request, vi, fi,
                   loopVars, log_calls, log_inserted, response, traceVars>>

\* llm_service and db_service run their module-level try blocks once, at import
ImportModules ==
    /\ pc = "import"
    /\ \E model_loads \in BOOLEAN, mongo_up \in BOOLEAN :
          /\ text2text_generator' = IF model_loads THEN Handle(load_count + 1) ELSE NoHandle
          /\ logs_collection' = IF mongo_up THEN "usage_logs" ELSE None
    /\ load_count' = load_count + 1
    /\ pc' = "idle"
    /\ UNCHANGED <<inference_called, request, vi, fi, loopVars,
                   log_calls, log_inserted, response, traceVars>>

(* --------------------- process_resumes_endpoint ----------------------- *)
\* the call arrives and the handler sets up its locals
ReceiveRequest ==
    /\ pc = "idle"
    /\ \E fs \in SeqsUpTo(InputFiles, MaxFiles) \ { <<>> }, u \in InputUserIds,
          r \in InputRequestIds, q \in InputQueries :
          /\ request' = [files |-> fs, user_id |-> u, request_id |-> r, query |-> q]
          /\ log_result_summary' =
                [files_processed |-> 0, files_failed |-> 0,
                 operation_type |-> IF ~Truthy(q) THEN "summary" ELSE "analysis"]
    /\ processed_results' = <<>>
    /\ text_content' = <<>>
    /\ vi' = 1
    /\ fi' = 0
    /\ log_calls' = 0
    /\ log_inserted' = <<>>
    /\ response' = NoResponse
    /\ read_files' = {}
    /\ extracted' = {}
    /\ inferred' = {}
    /\ no_text' = {}
    /\ caught' = {}
    /\ pc' = "validate"
    /\ UNCHANGED <<moduleVars, inference_called>>

\* validation that stops after the first file
ValidateFile_first_only ==
    /\ pc = "validate"
    /\ LET file == files[vi]
           ext == get_file_extension(file.filename)
       IN  IF file.content_type \notin ALLOWED_MIME_TYPES
              \/ ext.is_none \/ ext.val = <<>> \/ ext.val \notin ALLOWED_EXTENSIONS
           THEN /\ response' = HTTPException(400, "Arquivo inválido", file.filename)
                /\ pc' = "rejected"
                /\ UNCHANGED <<vi, fi>>
           ELSE /\ pc' = "read"
                /\ fi' = 1
                /\ UNCHANGED <<vi, response>>
    /\ UNCHANGED <<moduleVars, inference_called, request, loopVars,
                   log_calls, log_inserted, traceVars>>

\* validation by MIME type alone
ValidateFile_mime_only ==
    /\ pc = "validate"
    /\ LET file == files[vi]
       IN  IF file.content_type \notin ALLOWED_MIME_TYPES
           THEN /\ response' = HTTPException(400, "Tipo de arquivo inválido", file.filename)
                /\ pc' = "rejected"
                /\ UNCHANGED <<vi, fi>>
           ELSE IF vi < Len(files)
           THEN /\ vi' = vi + 1
                /\ UNCHANGED <<pc, fi, response>>
           ELSE /\ pc' = "read"
                /\ fi' = 1
                /\ UNCHANGED <<vi, response>>
    /\ UNCHANGED <<moduleVars, inference_called, request, loopVars,
                   log_calls, log_inserted, traceVars>>

\* one iteration of the validation loop
ValidateFile ==
    /\ pc = "validate"
    /\ LET file == files[vi]
           ext == get_file_extension(file.filename)
       IN  IF file.content_type \notin ALLOWED_MIME_TYPES
           THEN /\ response' = HTTPException(400, "Tipo de arquivo inválido", file.filename)
                /\ pc' = "rejected"
                /\ UNCHANGED <<vi, fi>>
           ELSE IF ext.is_none \/ ext.val = <<>> \/ ext.val \notin ALLOWED_EXTENSIONS
           THEN /\ response' = HTTPException(400, "Extensão de arquivo inválida", file.filename)
                /\ pc' = "rejected"
                /\ UNCHANGED <<vi, fi>>
           ELSE IF vi < Len(files)
           THEN /\ vi' = vi + 1
                /\ UNCHANGED <<pc, fi, response>>
           ELSE /\ pc' = "read"
                /\ fi' = 1
                /\ UNCHANGED <<vi, response>>
    /\ UNCHANGED <<moduleVars, inference_called, request, loopVars,
                   log_calls, log_inserted, traceVars>>

\* continue / fall off the end of the loop body
NextFile ==
    IF fi < Len(files)
    THEN fi' = fi + 1 /\ pc' = "read"
    ELSE fi' = fi /\ pc' = "log"

\* the result appended by the except clause
ErrorSlot(e) ==
    LET error_message == "Erro ao processar o arquivo: " \o e
    IN  IF Truthy(query)
        THEN ResumeAnalysis(files[fi].filename, error_message)
        ELSE ResumeSummary(files[fi].filename, error_message)

\* an except clause that appends nothing
ExceptHandler_noappend(e) ==
    /\ UNCHANGED processed_results
    /\ log_result_summary' =
          [log_result_summary EXCEPT !.files_failed = log_result_summary.files_failed + 1]
    /\ caught' = caught \cup {fi}
    /\ NextFile

\* an except clause that leaves the loop
ExceptHandler_break(e) ==
    /\ processed_results' = Append(processed_results, ErrorSlot(e))
    /\ log_result_summary' =
          [log_result_summary EXCEPT !.files_failed = log_result_summary.files_failed + 1]
    /\ caught' = caught \cup {fi}
    /\ fi' = fi
    /\ pc' = "log"

\* an except clause that does not count the failure
ExceptHandler_nocount(e) ==
    /\ processed_results' = Append(processed_results, ErrorSlot(e))
    /\ UNCHANGED log_result_summary
    /\ caught' = caught \cup {fi}
    /\ NextFile

\* the except clause of the per-file try
ExceptHandler(e) ==
    /\ processed_results' = Append(processed_results, ErrorSlot(e))
    /\ log_result_summary' =
          [log_result_summary EXCEPT !.files_failed = log_result_summary.files_failed + 1]
    /\ caught' = caught \cup {fi}
    /\ NextFile

\* file_bytes = await file.read(); text_content = ""
ReadFile ==
    /\ pc = "read"
    /\ read_files' = read_files \cup {fi}
    /\ \E raises \in BOOLEAN, e \in Exceptions :
          IF raises
          THEN /\ ExceptHandler(e)
               /\ UNCHANGED text_content
          ELSE /\ text_content' = <<>>
               /\ pc' = "extract"
               /\ UNCHANGED <<fi, processed_results, log_result_summary, caught>>
    /\ UNCHANGED <<moduleVars, inference_called, request, vi,
                   log_calls, log_inserted, response, extracted, inferred, no_text>>

\* OCR got no text out of an image / out of any page of a PDF
NoTextFromImage(o) == o.raised \/ strip(o.text) = <<>>
NoTextFromPdf(o) ==
    o.convert_raises
    \/ \A k \in 1..Len(o.pages) : o.pages[k].save_raises \/ NoTextFromImage(o.pages[k].ocr)

\* the dispatch on content_type, with its fallback branch
ExtractText ==
    /\ pc = "extract"
    /\ IF files[fi].content_type = "application/pdf"
       THEN \E o \in PdfOutcomes :
               /\ text_content' = extract_text_from_pdf_bytes(o)
               /\ no_text' = IF NoTextFromPdf(o) THEN no_text \cup {fi} ELSE no_text
               /\ extracted' = extracted \cup {fi}
               /\ pc' = "close"
               /\ UNCHANGED <<fi, processed_results, log_result_summary>>
       ELSE IF files[fi].content_type \in {"image/png", "image/jpeg"}
       THEN \E o \in OcrOutcomes :
               /\ text_content' = extract_text_from_image_bytes(o)
               /\ no_text' = IF NoTextFromImage(o) THEN no_text \cup {fi} ELSE no_text
               /\ extracted' = extracted \cup {fi}
               /\ pc' = "close"
               /\ UNCHANGED <<fi, processed_results, log_result_summary>>
       ELSE /\ processed_results' =
                  Append(processed_results,
                         [kind |-> "dict", file_name |-> files[fi].filename,
                          error |-> "Tipo de arquivo não suportado ou erro na leitura inicial."])
            /\ log_result_summary' =
                  [log_result_summary EXCEPT
                      !.files_failed = log_result_summary.files_failed + 1]
            /\ NextFile
            /\ UNCHANGED <<text_content, no_text, extracted>>
    /\ UNCHANGED <<moduleVars, inference_called, request, vi,
                   log_calls, log_inserted, response, read_files, inferred, caught>>

\* await file.close()
CloseFile ==
    /\ pc = "close"
    /\ \E raises \in BOOLEAN, e \in Exceptions :
          IF raises
          THEN ExceptHandler(e)
          ELSE /\ pc' = "check_text"
               /\ UNCHANGED <<fi, processed_results, log_result_summary, caught>>
    /\ UNCHANGED <<moduleVars, inference_called, request, vi,
                   text_content, log_calls, log_inserted, response, read_files,
                   extracted, inferred, no_text>>

\* if not text_content.strip(): placeholder result, counted as failed
CheckText ==
    /\ pc = "check_text"
    /\ IF strip(text_content) = <<>>
       THEN /\ processed_results' =
                  Append(processed_results,
                         IF Truthy(query)
                         THEN ResumeAnalysis(files[fi].filename,
                                             "Nenhum texto extraído do arquivo.")
                         ELSE ResumeSummary(files[fi].filename,
                                            "Nenhum texto extraído do arquivo."))
            /\ log_result_summary' =
                  [log_result_summary EXCEPT
                      !.files_failed = log_result_summary.files_failed + 1]
            /\ NextFile
       ELSE /\ pc' = "infer"
            /\ UNCHANGED <<fi, processed_results, log_result_summary>>
    /\ UNCHANGED <<moduleVars, inference_called, request, vi,
                   text_content, log_calls, log_inserted, response, traceVars>>

\* the call of the inference adapter and the append of its result
Infer ==
    /\ pc = "infer"
    /\ inferred' = inferred \cup {fi}
    /\ inference_called' = TRUE
    /\ \E o \in LlmOutcomes :
          LET r == IF Truthy(query)
                   THEN analyze_resume_with_query(text2text_generator, text_content, query, o)
                   ELSE generate_summary(text2text_generator, text_content, o)
          IN  IF r.raised
              THEN ExceptHandler(r.value)
              ELSE /\ processed_results' =
                         Append(processed_results,
                                IF Truthy(query)
                                THEN ResumeAnalysis(files[fi].filename, r.value)
                                ELSE ResumeSummary(files[fi].filename, r.value))
                   /\ log_result_summary' =
                         [log_result_summary EXCEPT
                             !.files_processed = log_result_summary.files_processed + 1]
                   /\ NextFile
                   /\ UNCHANGED caught
    /\ UNCHANGED <<moduleVars, request, vi, text_content, log_calls,
                   log_inserted, response, read_files, extracted, no_text>>

\* await log_usage(request_id, user_id, query, log_result_summary)
LogUsage ==
    /\ pc = "log"
    /\ log_calls' = log_calls + 1
    /\ \E insert_raises \in BOOLEAN :
          LET r == log_usage(logs_collection, request.request_id, request.user_id, query,
                             log_result_summary, insert_raises)
          IN  /\ log_inserted' = r.inserted
              /\ IF r.raised
                 THEN /\ pc' = "crashed"
                      /\ response' = HTTPException(500, "Internal Server Error", <<>>)
                 ELSE /\ pc' = "respond"
                      /\ UNCHANGED response
    /\ UNCHANGED <<moduleVars, inference_called, request, vi, fi,
                   loopVars, traceVars>>

\* the return statement; the response model validates the results list
Respond ==
    /\ pc = "respond"
    /\ LET kind == IF Truthy(query) THEN "ResumeAnalysis" ELSE "ResumeSummary"
       IN  IF ValidResults(processed_results, kind)
           THEN /\ response' =
                      IF Truthy(query)
                      THEN AnalysisResponse(request.request_id, query, processed_results)
                      ELSE SummaryResponse(request.request_id, processed_results)
                /\ pc' = "done"
           ELSE /\ response' = HTTPException(500, "Internal Server Error", <<>>)
                /\ pc' = "crashed"
    /\ UNCHANGED <<moduleVars, inference_called, request, vi, fi,
                   loopVars, log_calls, log_inserted, traceVars>>

\* the response has been sent; the handler's frame is gone
Return ==
    /\ pc \in {"done", "rejected", "crashed"}
    /\ pc' = "idle"
    /\ request' = NoRequest
    /\ vi' = 0
    /\ fi' = 0
    /\ text_content' = <<>>
    /\ processed_results' = <<>>
    /\ log_result_summary' =
          [files_processed |-> 0, files_failed |-> 0, operation_type |-> "summary"]
    /\ log_calls' = 0
    /\ log_inserted' = <<>>
    /\ response' = NoResponse
    /\ read_files' = {}
    /\ extracted' = {}
    /\ inferred' = {}
    /\ no_text' = {}
    /\ caught' = {}
    /\ UNCHANGED <<moduleVars, inference_called>>

Next ==
    \/ ImportModules
    \/ ReceiveRequest
    \/ ValidateFile
    \/ ReadFile
    \/ ExtractText
    \/ CloseFile
    \/ CheckText
    \/ Infer
    \/ LogUsage
    \/ Respond
    \/ Return

Spec == Init /\ [][Next]_vars

(* ------------------------------ claims -------------------------------- *)
InHandler == pc \notin {"import", "idle"}
Accepted == pc \in {"read", "extract", "close", "check_text", "infer", "log", "respond", "done"}
Processing == pc \in {"read", "extract", "close", "check_text", "infer"}
NormalResponse == response.type \in {"SummaryResponse", "AnalysisResponse"}

\* the query is provided and non-empty
QueryGiven == query # None /\ query # ""
ModeKind == IF QueryGiven THEN "ResumeAnalysis" ELSE "ResumeSummary"

\* the upload passes both checks of the validation loop
ValidUpload(f) ==
    /\ f.content_type \in ALLOWED_MIME_TYPES
    /\ Contains(f.filename, ".")
    /\ lower(LastPart(f.filename, ".")) \in ALLOWED_EXTENSIONS

\* the string held by a result slot
SlotText(r) ==
    IF r.kind = "ResumeSummary" THEN r.summary
    ELSE IF r.kind = "ResumeAnalysis" THEN r.analysis
    ELSE r.error

Placeholder == "Nenhum texto extraído do arquivo."
ExceptionMessages == { "Erro ao processar o arquivo: " \o e : e \in Exceptions }
InferenceErrors ==
    { "Erro: LLM não disponível para sumarização.", "Erro ao gerar sumário.",
      "Erro: LLM não disponível para análise.", "Erro ao analisar currículo." }
ErrorTexts == {Placeholder} \cup ExceptionMessages \cup InferenceErrors

\* C1: the phases of a request come in the order validate, extract/infer, log,
\* respond: a file is read, extracted or inferred only once every file has
\* passed validation; log_usage is called at most once, and only when every
\* file has its result; a response is returned only after that one call.
C1_PhaseOrder ==
    /\ (read_files \cup extracted \cup inferred # {}) =>
          /\ vi = Len(files)
          /\ \A k \in 1..Len(files) : ValidUpload(files[k])
    /\ Processing => log_calls = 0 /\ response = NoResponse
    /\ log_calls <= 1
    /\ log_calls = 1 =>
          /\ pc \in {"respond", "done"}
          /\ fi = Len(files)
          /\ Len(processed_results) = Len(files)
          /\ read_files = 1..Len(files)
    /\ pc \in {"respond", "done"} => log_calls = 1
    /\ NormalResponse <=> pc = "done"

C1_Witness ==
    /\ pc = "done"
    /\ Len(files) = 2
    /\ inferred = {1, 2}
    /\ log_calls = 1
    /\ NormalResponse

\* C2: an accepted request returns one result per uploaded file, in upload
\* order, whatever mix of successes, empty texts and exceptions it contains.
C2_OneResultPerFile ==
    /\ Accepted =>
          /\ Len(processed_results) <= Len(files)
          /\ \A k \in 1..Len(processed_results) :
                processed_results[k].file_name = files[k].filename
    /\ pc = "done" =>
          /\ Len(response.results) = Len(files)
          /\ \A k \in 1..Len(files) : response.results[k].file_name = files[k].filename
    /\ pc # "crashed"

C2_Witness ==
    /\ pc = "done"
    /\ Len(files) = 2
    /\ files[1].filename # files[2].filename
    /\ 1 \in caught
    /\ SlotText(response.results[2]) = Placeholder

\* C3: a request with a file of a disallowed content type or extension is
\* rejected with HTTP 400 and nothing else happens: no file is read,
\* extracted or inferred and no usage log is written.
C3_RejectedWithoutEffect ==
    /\ (InHandler /\ \E k \in 1..Len(files) : ~ValidUpload(files[k])) =>
          /\ pc \in {"validate", "rejected"}
          /\ read_files = {} /\ extracted = {} /\ inferred = {}
          /\ processed_results = <<>>
          /\ log_calls = 0 /\ log_inserted = <<>>
    /\ pc = "rejected" =>
          /\ response.type = "HTTPException" /\ response.status_code = 400
          /\ ~ValidUpload(files[vi])
          /\ response.file_name = files[vi].filename

C3_Witness ==
    /\ pc = "rejected"
    /\ vi = 2
    /\ ValidUpload(files[1])
    /\ files[2].content_type \in ALLOWED_MIME_TYPES

\* C4: an exception while processing a file puts an error string into that
\* file's own slot (summary or analysis by mode), adds one to files_failed,
\* and the loop goes on: later files are processed and the request returns
\* a normal response.
C4_ExceptionIsolated ==
    /\ \A k \in caught :
          /\ k <= Len(processed_results)
          /\ processed_results[k].kind = ModeKind
          /\ processed_results[k].file_name = files[k].filename
          /\ SlotText(processed_results[k]) \in ExceptionMessages
    /\ Accepted =>
          log_result_summary.files_failed =
             Cardinality(caught \cup { k \in 1..Len(processed_results) :
                                          SlotText(processed_results[k]) = Placeholder })
    /\ (caught # {} /\ pc \in {"log", "respond", "done"}) =>
          /\ read_files = 1..Len(files)
          /\ Len(processed_results) = Len(files)
    /\ (caught # {} /\ pc = "done") => NormalResponse
    /\ pc # "crashed"

C4_Witness ==
    /\ pc = "done"
    /\ Len(files) = 2
    /\ caught = {1}
    /\ 2 \in inferred
    /\ SlotText(response.results[2]) \in ModelOutputs
    /\ log_result_summary.files_failed = 1

\* C5: the mode is fixed by the query: with a non-empty query every result
\* is a ResumeAnalysis, the response an AnalysisResponse with query_used the
\* query, and operation_type "analysis"; otherwise every result is a
\* ResumeSummary, the response a SummaryResponse and operation_type
\* "summary". No entry of another shape is ever in the results.
C5_ModeFixedByQuery ==
    InHandler =>
       /\ \A k \in 1..Len(processed_results) : processed_results[k].kind = ModeKind
       /\ log_result_summary.operation_type = (IF QueryGiven THEN "analysis" ELSE "summary")
       /\ \A k \in 1..Len(log_inserted) :
             log_inserted[k].result_summary.operation_type =
                (IF QueryGiven THEN "analysis" ELSE "summary")
       /\ pc = "done" =>
             /\ response.type = (IF QueryGiven THEN "AnalysisResponse" ELSE "SummaryResponse")
             /\ QueryGiven => response.query_used = query
             /\ \A k \in 1..Len(response.results) : response.results[k].kind = ModeKind
       /\ pc # "crashed"

C5_Witness ==
    /\ pc = "done"
    /\ query = ""
    /\ response.type = "SummaryResponse"
    /\ Len(response.results) = 2
    /\ log_inserted # <<>>

\* C6: log_usage never raises, whether the collection is None, the insert
\* fails or the insert succeeds, and the response (type, request_id,
\* results) is the one the request and its results determine in each case.
C6_LogFireAndForget ==
    /\ pc # "crashed"
    /\ log_calls = 1 => pc \in {"respond", "done"}
    /\ pc = "done" =>
          /\ log_calls = 1
          /\ response =
                (IF QueryGiven
                 THEN AnalysisResponse(request.request_id, query, processed_results)
                 ELSE SummaryResponse(request.request_id, processed_results))
          /\ Len(response.results) = Len(files)
    /\ (logs_collection = None /\ InHandler) => log_inserted = <<>>

C6_Witness ==
    /\ pc = "done"
    /\ logs_collection # None
    /\ log_calls = 1
    /\ log_inserted = <<>>
    /\ NormalResponse

\* C7 as stated: the model handle is lazily initialized: not loaded before
\* the first call that needs inference, loaded at most once, and the same
\* handle serves every later call.
C7_LazyHandle ==
    /\ load_count > 0 => inference_called
    /\ load_count <= 1
    /\ text2text_generator.is_none \/ text2text_generator.id = 1

\* C7 amended: the model handle is initialized eagerly, once, at module
\* import, before any request and whether or not inference is ever needed;
\* it is never reloaded and every inference call uses that same handle.
C7_EagerHandle ==
    /\ pc = "import" => load_count = 0 /\ ~inference_called /\ text2text_generator.is_none
    /\ pc # "import" =>
          /\ load_count = 1
          /\ text2text_generator.is_none \/ text2text_generator.id = 1

C7_Witness ==
    /\ pc = "infer"
    /\ fi = 1
    /\ inference_called
    /\ ~text2text_generator.is_none
    /\ load_count = 1

\* C8: when log_usage is called, files_processed + files_failed is the
\* number of files: every file adds one to exactly one of the two counters.
C8_CountsAddUp ==
    /\ Accepted =>
          log_result_summary.files_processed + log_result_summary.files_failed
             = Len(processed_results)
    /\ pc \in {"log", "respond", "done"} =>
          log_result_summary.files_processed + log_result_summary.files_failed = Len(files)
    /\ \A k \in 1..Len(log_inserted) :
          log_inserted[k].result_summary.files_processed
             + log_inserted[k].result_summary.files_failed = Len(files)

C8_Witness ==
    /\ pc = "respond"
    /\ log_inserted # <<>>
    /\ log_inserted[1].result_summary.files_processed = 1
    /\ log_inserted[1].result_summary.files_failed = 1
    /\ caught # {}

\* C9: the logged counts agree with the results: files_processed counts
\* only slots holding text the model produced, and every slot holding an
\* error or placeholder string is counted in files_failed.
C9_CountsAgreeWithResults ==
    pc \in {"log", "respond", "done"} =>
       /\ log_result_summary.files_failed =
             Cardinality({ k \in 1..Len(processed_results) :
                              SlotText(processed_results[k]) \in ErrorTexts })
       /\ log_result_summary.files_processed =
             Cardinality({ k \in 1..Len(processed_results) :
                              SlotText(processed_results[k]) \notin ErrorTexts })

\* C10: a file from which OCR extracts no text gets the placeholder result,
\* is counted in files_failed, and is never passed to the inference adapter.
C10_NoTextNoInference ==
    \A k \in no_text :
       /\ k \notin inferred
       /\ (k <= Len(processed_results) /\ k \notin caught) =>
             SlotText(processed_results[k]) = Placeholder

====
